---- MODULE Spec2Model ----
(***************************************************************************)
(* Model of the mortgage-trend-tracker dashboard: the numeric transforms   *)
(* of lib/math.ts and the Dashboard page (loadData, updateEstimatedRates)  *)
(* with its React state.                                                   *)
(*                                                                         *)
(* Numbers are fixed-point integers in thousandths (4.25 is 4250), so the  *)
(* toFixed roundings of the source are real roundings here.  Binary        *)
(* floating-point representation error is not modelled.                    *)
(* Dates are the integers yyyymmdd: their order is the lexicographic order *)
(* of the ISO strings "YYYY-MM-DD" that the source compares.               *)
(***************************************************************************)
EXTENDS Integers, Sequences, FiniteSets, TLC

(***************************************************************************)
(* Option values: JavaScript's undefined / null against a defined value.   *)
(***************************************************************************)
None == <<>>

Some(x) == <<x>>

IsSome(o) == Len(o) = 1

Get(o) == o[1]

(***************************************************************************)
(* Number.prototype.toFixed on fixed-point values.                         *)
(***************************************************************************)
\* n / d rounded to the nearest integer, a tie going away from zero
\* (toFixed picks the larger n for a positive x and negates for a negative x).
RoundDiv(n, d) ==
    LET nn == IF d < 0 THEN -n ELSE n
        dd == IF d < 0 THEN -d ELSE d
    IN  IF nn >= 0
        THEN (2 * nn + dd) \div (2 * dd)
        ELSE -((2 * (-nn) + dd) \div (2 * dd))

\* Number(x.toFixed(2)) for x in thousandths
ToFixed2(x) == 10 * RoundDiv(x, 10)

(***************************************************************************)
(* lib/math.ts                                                             *)
(***************************************************************************)
\* the 0.4 of `spread - 0.4`
FifteenYearOffset == 400

estimateMortgageRate(treasuryYield, spreadArg) ==
    ToFixed2(treasuryYield + spreadArg)

\* faulty variant: the 15-year offset added to the spread
estimate15YearAddingOffset(treasuryYield, spreadArg) ==
    LET fifteenYearSpread == spreadArg + FifteenYearOffset
    IN  ToFixed2(treasuryYield + fifteenYearSpread)

estimate15YearMortgageRate(treasuryYield, spreadArg) ==
    LET fifteenYearSpread == spreadArg - FifteenYearOffset
    IN  ToFixed2(treasuryYield + fifteenYearSpread)

calculateDelta(current, previous) == ToFixed2(current - previous)

\* ((current - previous) / previous) * 100, toFixed(2); 0 for a zero base
calculateInflationRate(currentCPI, previousYearCPI) ==
    IF previousYearCPI = 0
    THEN 0
    ELSE 10 * RoundDiv((currentCPI - previousYearCPI) * 100 * 100, previousYearCPI)

(***************************************************************************)
(* Dates                                                                   *)
(***************************************************************************)
BaseYear == 2024

\* day `day` of the k-th month counted from January of BaseYear, as yyyymmdd
MonthDay(k, day) ==
    (BaseYear + ((k - 1) \div 12)) * 10000 + (((k - 1) % 12) + 1) * 100 + day

\* d.setMonth(d.getMonth() - 12); d.toISOString().split('T')[0]
\* (the same day one year earlier; 29 February overflows to 1 March)
TwelveMonthsBefore(date) ==
    IF date % 10000 = 229
    THEN date - 10000 + 72
    ELSE date - 10000

IsLeap(y) == (y % 4 = 0 /\ y % 100 # 0) \/ y % 400 = 0

DaysInMonth(y, m) ==
    IF m = 2 THEN (IF IsLeap(y) THEN 29 ELSE 28)
    ELSE IF m \in {4, 6, 9, 11} THEN 30 ELSE 31

\* Date arithmetic normalises a day beyond the end of its month into the
\* next month (months 1..12, day >= 1)
Normalised(y, m, d) ==
    IF d <= DaysInMonth(y, m)
    THEN y * 10000 + m * 100 + d
    ELSE IF m = 12
         THEN (y + 1) * 10000 + 100 + (d - DaysInMonth(y, m))
         ELSE y * 10000 + (m + 1) * 100 + (d - DaysInMonth(y, m))

\* d.setMonth(d.getMonth() - n); d.toISOString().split('T')[0]
MonthsBefore(date, n) ==
    LET y     == date \div 10000
        m     == (date \div 100) % 100
        d     == date % 100
        index == y * 12 + (m - 1) - n
    IN  Normalised(index \div 12, (index % 12) + 1, d)

\* d.setDate(d.getDate() - n); d.toISOString().split('T')[0]
RECURSIVE DaysBefore(_, _)
DaysBefore(date, n) ==
    LET y == date \div 10000
        m == (date \div 100) % 100
        d == date % 100
    IN  IF n < d
        THEN date - n
        ELSE LET py == IF m = 1 THEN y - 1 ELSE y
                 pm == IF m = 1 THEN 12 ELSE m - 1
             IN  DaysBefore(py * 10000 + pm * 100 + DaysInMonth(py, pm), n - d)

\* timeRangeToDays: 45 days are fetched for the 30d view
timeRangeToDays(range) ==
    CASE range = "30d"  -> 45
      [] range = "90d"  -> 90
      [] range = "180d" -> 180
      [] range = "365d" -> 365
      [] OTHER          -> 90

\* getStartDateForRange, with `today` the reading of the clock
getStartDateForRange(range, today) == DaysBefore(today, timeRangeToDays(range))

InflationMonths == 15

(***************************************************************************)
(* The wall clock: new Date() is an input of every step that reads it.     *)
(* The readings are the 15th of ClockBaseMonth and of the months after it. *)
(***************************************************************************)
MaxClock == 1

ClockBaseMonth == 18

TodayISO(t) == MonthDay(ClockBaseMonth + t, 15)

ClockReadings == { TodayISO(t) : t \in 0..MaxClock }

(***************************************************************************)
(* What the Series Provider may answer.  An Observation is                 *)
(* [date, value]; a series is ascending by date (sort_order: 'asc').       *)
(***************************************************************************)
Indicators == {"DGS10", "MORTGAGE30US", "MORTGAGE15US", "CPIAUCSL", "PCEPILFE"}

Primary == "DGS10"

Secondaries == Indicators \ {Primary}

Obs(d, v) == [date |-> d, value |-> v]

\* daily observations: none, one, two, and two with a 0.00 yield before the last
TreasuryUniverse ==
    { <<>>,
      <<Obs(20250612, 4257)>>,
      <<Obs(20250611, 4250), Obs(20250612, 4257)>>,
      <<Obs(20250611, 0), Obs(20250612, 4257)>> }

\* weekly observations, Thursdays
Mortgage30Universe == { <<>>, <<Obs(20250605, 6850), Obs(20250612, 6840)>> }

Mortgage15Universe == { <<>>, <<Obs(20250612, 5970)>> }

\* the `obs.length >= 10` of the annual-rate computation
MinAnnualObs == 10

\* the month of the latest monthly observation (May 2025)
LatestMonth == 17

MaxInflLen == 14

\* n consecutive monthly observations ending at LatestMonth
InflationSeries(n, base, step) ==
    [i \in 1..n |-> Obs(MonthDay(LatestMonth - n + i, 1), base + step * (i - 1))]

CpiUniverse == { InflationSeries(n, 300000, 1000) : n \in {0, MinAnnualObs - 1, MaxInflLen} }

CorePceUniverse == { InflationSeries(n, 120000, 500) : n \in {0, 1, MaxInflLen} }

(***************************************************************************)
(* JavaScript helpers used by the Dashboard page                           *)
(***************************************************************************)
\* arr[i] with JavaScript's 0-based index: undefined outside the array
At(arr, i) == IF i >= 0 /\ i < Len(arr) THEN Some(arr[i + 1]) ELSE None

\* `o?.value || fallback`: the fallback is taken for undefined and for 0
ValueOr(o, fallback) ==
    IF IsSome(o) /\ Get(o).value # 0 THEN Get(o).value ELSE fallback

\* obs.map(o => ({date, value, label}))
ToChart(obs, label) ==
    [i \in 1..Len(obs) |-> [date |-> obs[i].date, value |-> obs[i].value, label |-> label]]

\* `obs.length > 0 ? obs.map(...) : undefined`
ToChartOrUndefined(obs, label) ==
    IF Len(obs) > 0 THEN Some(ToChart(obs, label)) ELSE None

\* the observations behind a chart series of the snapshot
FromChart(optChart) ==
    IF IsSome(optChart)
    THEN [i \in 1..Len(Get(optChart)) |-> Obs(Get(optChart)[i].date, Get(optChart)[i].value)]
    ELSE <<>>

(***************************************************************************)
(* loadData, after the fetches have been joined (Footer.tsx 181-370)       *)
(***************************************************************************)
\* faulty variant: the latest observation not after the target date, which
\* makes the result follow the wall clock
FindLatestNotAfter(obs, targetDate) ==
    LET hits == {i \in 1..Len(obs) : obs[i].date <= targetDate}
    IN  IF hits # {}
        THEN obs[CHOOSE i \in hits : \A j \in hits : i >= j]
        ELSE obs[1]

\* obs.find(o => o.date <= targetDate) || obs[0]
FindYearAgo(obs, targetDate) ==
    LET hits == {i \in 1..Len(obs) : obs[i].date <= targetDate}
    IN  IF hits # {}
        THEN obs[CHOOSE i \in hits : \A j \in hits : i <= j]
        ELSE obs[1]

\* faulty variant: the length guard dropped
YearAgoObsUnguarded(obs, now) ==
    Some(FindYearAgo(obs, TwelveMonthsBefore(now)))

\* cpiYear / corePceYear: null below MinAnnualObs observations
YearAgoObs(obs, now) ==
    IF Len(obs) >= MinAnnualObs
    THEN Some(FindYearAgo(obs, TwelveMonthsBefore(now)))
    ELSE None

\* one of inflationData.cpi / inflationData.corePce
InflationBlock(obs, now) ==
    LET current  == obs[Len(obs)]
        previous == At(obs, Len(obs) - 2)
        yearAgo  == YearAgoObs(obs, now)
    IN  [current    |-> current.value,
         previous   |-> ValueOr(previous, current.value),
         delta      |-> calculateDelta(current.value, ValueOr(previous, current.value)),
         annualRate |-> IF IsSome(yearAgo)
                        THEN calculateInflationRate(current.value, Get(yearAgo).value)
                        ELSE 0]

\* faulty variant: an off-by-one in the emptiness test
HasInflationOffByOne(cpiObs, corePceObs) == Len(cpiObs) > 1 /\ Len(corePceObs) > 1

\* `if (cpiObs.length > 0 && corePceObs.length > 0)`
HasInflation(cpiObs, corePceObs) == Len(cpiObs) > 0 /\ Len(corePceObs) > 0

InflationData(cpiObs, corePceObs, now) ==
    IF HasInflation(cpiObs, corePceObs)
    THEN Some([cpi     |-> InflationBlock(cpiObs, now),
               corePce |-> InflationBlock(corePceObs, now)])
    ELSE None

TenYearYield(treasuryObs) ==
    LET currentTreasury  == treasuryObs[Len(treasuryObs)]
        previousTreasury == At(treasuryObs, Len(treasuryObs) - 2)
    IN  [current     |-> currentTreasury.value,
         previous    |-> ValueOr(previousTreasury, currentTreasury.value),
         delta       |-> calculateDelta(currentTreasury.value,
                                        ValueOr(previousTreasury, currentTreasury.value)),
         lastUpdated |-> currentTreasury.date]

\* treasuryObs.map(obs => ({date, value: estimate(obs.value, spread), label}))
\* faulty variant: the estimate series starts at the second point
EstimatedChartWithoutFirst(points, spreadArg, label) ==
    [i \in 1..(Len(points) - 1) |->
        [date  |-> points[i + 1].date,
         value |-> estimateMortgageRate(points[i + 1].value, spreadArg),
         label |-> label]]

EstimatedChart(points, spreadArg, label) ==
    [i \in 1..Len(points) |->
        [date  |-> points[i].date,
         value |-> estimateMortgageRate(points[i].value, spreadArg),
         label |-> label]]

Estimated15YearChart(points, spreadArg, label) ==
    [i \in 1..Len(points) |->
        [date  |-> points[i].date,
         value |-> estimate15YearMortgageRate(points[i].value, spreadArg),
         label |-> label]]

\* faulty variant: the first observation taken for the current one
FirstValueOrUndefined(obs) ==
    IF Len(obs) > 0 THEN Some(obs[1].value) ELSE None

LastValueOrUndefined(obs) ==
    IF Len(obs) > 0 THEN Some(obs[Len(obs)].value) ELSE None

\* newData: the DashboardData built from the five joined series (treasuryObs
\* non-empty), the spread of the invocation and the wall clock
BuildDashboardData(treasuryObs, mortgageObs, mortgage15Obs, cpiObs, corePceObs, spreadArg, now) ==
    [tenYearYield   |-> TenYearYield(treasuryObs),
     mortgageRates  |->
        [estimated       |-> estimateMortgageRate(
                                 treasuryObs[Len(treasuryObs)].value, spreadArg),
         estimated15Year |-> estimate15YearMortgageRate(
                                 treasuryObs[Len(treasuryObs)].value, spreadArg),
         actual          |-> LastValueOrUndefined(mortgageObs),
         actual15Year    |-> LastValueOrUndefined(mortgage15Obs),
         spread          |-> spreadArg],
     inflationData  |-> InflationData(cpiObs, corePceObs, now),
     historicalData |->
        [treasuryYield           |-> ToChart(treasuryObs, "Treasury"),
         estimatedMortgage       |->
            EstimatedChart(treasuryObs, spreadArg, "Estimated 30-Year Mortgage"),
         estimated15YearMortgage |->
            Estimated15YearChart(treasuryObs, spreadArg, "Estimated 15-Year Mortgage"),
         actualMortgage          |-> ToChartOrUndefined(mortgageObs, "Actual Mortgage"),
         actual15YearMortgage    |->
            ToChartOrUndefined(mortgage15Obs, "Actual 15-Year Mortgage"),
         cpiData                 |-> ToChartOrUndefined(cpiObs, "CPI - All Items"),
         corePceData             |-> ToChartOrUndefined(corePceObs, "Core PCE")]]

(***************************************************************************)
(* updateEstimatedRates (Footer.tsx 385-410): the snapshot recomputed      *)
(* under a new spread, from the snapshot's own 10-year series              *)
(***************************************************************************)
\* faulty variant: the current 15-year estimate is not recomputed
UpdatedKeeping15Year(data, spreadArg) ==
    [data EXCEPT
        !.mortgageRates.estimated =
            estimateMortgageRate(data.tenYearYield.current, spreadArg),
        !.mortgageRates.spread = spreadArg,
        !.historicalData.estimatedMortgage =
            EstimatedChart(data.historicalData.treasuryYield, spreadArg,
                           "Estimated Mortgage")]

\* faulty variant: the recomputation loses the inflation block
UpdatedWithoutInflation(data, spreadArg) ==
    [data EXCEPT
        !.mortgageRates.estimated =
            estimateMortgageRate(data.tenYearYield.current, spreadArg),
        !.mortgageRates.estimated15Year =
            estimate15YearMortgageRate(data.tenYearYield.current, spreadArg),
        !.mortgageRates.spread = spreadArg,
        !.inflationData = None,
        !.historicalData.estimatedMortgage =
            EstimatedChart(data.historicalData.treasuryYield, spreadArg,
                           "Estimated Mortgage")]

UpdatedDashboardData(data, spreadArg) ==
    [data EXCEPT
        !.mortgageRates.estimated =
            estimateMortgageRate(data.tenYearYield.current, spreadArg),
        !.mortgageRates.estimated15Year =
            estimate15YearMortgageRate(data.tenYearYield.current, spreadArg),
        !.mortgageRates.spread = spreadArg,
        !.historicalData.estimatedMortgage =
            EstimatedChart(data.historicalData.treasuryYield, spreadArg,
                           "Estimated Mortgage")]

(***************************************************************************)
(* handleExportCsv (Footer.tsx 415-447): the rows of the CSV file.  A cell  *)
(* printed with toFixed(2) is the rounded number; 'N/A' is None.           *)
(***************************************************************************)
\* treasuryYield.map((treasury, index) => [treasury.date, ..., actual ? ... : 'N/A'])
\* with estimated = estimatedMortgage[index], actual = actualMortgage?.[index]
CsvRows(data) ==
    LET treasuryYield     == data.historicalData.treasuryYield
        estimatedMortgage == data.historicalData.estimatedMortgage
        actualMortgage    == data.historicalData.actualMortgage
        ActualAt(index)   == IF IsSome(actualMortgage)
                             THEN At(Get(actualMortgage), index)
                             ELSE None
    IN  [i \in 1..Len(treasuryYield) |->
            [date      |-> treasuryYield[i].date,
             treasury  |-> ToFixed2(treasuryYield[i].value),
             estimated |-> ToFixed2(estimatedMortgage[i].value),
             actual    |-> IF IsSome(ActualAt(i - 1))
                           THEN Some(ToFixed2(Get(ActualAt(i - 1)).value))
                           ELSE None]]

(***************************************************************************)
(***************************************************************************)
(* The Dashboard component: its React state and the loadData invocations   *)
(* in flight.  lastUpdated (a display-only timestamp) is left out.         *)
(***************************************************************************)
VARIABLES
    dashboardData,  \* useState<DashboardData | null>(null)
    isLoading,      \* useState(true)
    spread,         \* useState(1.9)
    timeRange,      \* useState<TimeRange>('90d')
    error,          \* useState<string | null>(null)
    autoRefresh,    \* useState(false), never set
    mounted,        \* whether the mount effects have run
    loads,          \* the loadData invocations in flight, oldest first
    provider,       \* what the Series Provider can answer (fixed in a behaviour)
    lastPrimary,    \* history: how the 10-year fetch of the load that completed last
                    \* came back: "rejected", "empty" or "data" ("none" once a
                    \* load starts, and when another fetch failed the load)
    lastFailed,     \* history: the secondary fetches that failed in the load that
                    \* completed last (emptied when a load starts)
    lastStoreStale, \* history: the snapshot stored last came from an invocation
                    \* that a younger invocation had already overtaken
    call            \* the library or chart function applied last, with its
                    \* arguments and its result (NoCall in the Dashboard)

vars == <<dashboardData, isLoading, spread, timeRange, error, autoRefresh, mounted,
          loads, provider, lastPrimary, lastFailed, lastStoreStale, call>>

NoCall == [fn |-> "none", args |-> <<>>, result |-> <<>>]

DefaultSpread == 1900

\* values the SpreadControl can deliver (a preset and a slider position)
SpreadChoices == {DefaultSpread, 2450}

TimeRanges == {"30d", "90d"}

MaxInFlight == 2

NoTreasuryMessage == "No Treasury data available"

FetchErrorMessage == "FRED API error"

FullProvider ==
    [treasury   |-> TreasuryUniverse,
     mortgage30 |-> Mortgage30Universe,
     mortgage15 |-> Mortgage15Universe,
     cpi        |-> CpiUniverse,
     corePce    |-> CorePceUniverse,
     mayFail    |-> Indicators]

\* the provider of the overlapping-loads specification: 10-year data only
SmallProvider ==
    [treasury   |-> { <<>>, <<Obs(20250612, 4257)>>,
                      <<Obs(20250612, 4257), Obs(20250613, 4300)>> },
     mortgage30 |-> { <<>> },
     mortgage15 |-> { <<>> },
     cpi        |-> { <<>> },
     corePce    |-> { <<>> },
     mayFail    |-> {Primary}]

\* `if (error && !dashboardData)`: the error page replaces the dashboard
ErrorView == IsSome(error) /\ ~IsSome(dashboardData)

Init ==
    /\ dashboardData = None
    /\ isLoading = TRUE
    /\ spread = DefaultSpread
    /\ timeRange = "90d"
    /\ error = None
    /\ autoRefresh = FALSE
    /\ mounted = FALSE
    /\ loads = <<>>
    /\ provider = FullProvider
    /\ lastPrimary = "none"
    /\ lastFailed = {}
    /\ lastStoreStale = FALSE
    /\ call = NoCall

\* faulty variant: the 15-year mortgage fetch is given the inflation range
RequestedRangesMixed(rangeArg, today) ==
    [ind \in Indicators |->
        [start |-> IF ind \in {"MORTGAGE15US", "CPIAUCSL", "PCEPILFE"}
                   THEN MonthsBefore(today, InflationMonths)
                   ELSE getStartDateForRange(rangeArg, today),
         end   |-> today]]

\* the (start, end) each fetch of a loadData invocation is called with:
\* (startDate, endDate) for fetchDgs10, fetchMortgage30 and fetchMortgage15,
\* (inflationStartDate, endDate) for fetchCPI and fetchCorePCE
RequestedRanges(rangeArg, today) ==
    [ind \in Indicators |->
        [start |-> IF ind \in {"CPIAUCSL", "PCEPILFE"}
                   THEN MonthsBefore(today, InflationMonths)
                   ELSE getStartDateForRange(rangeArg, today),
         end   |-> today]]

\* loadData up to its await: setIsLoading(true), setError(null), and the five
\* fetches issued together
StartLoad(spreadArg, rangeArg) ==
    /\ Len(loads) < MaxInFlight
    /\ isLoading' = TRUE
    /\ error' = None
    /\ \E today \in ClockReadings :
          loads' = Append(loads, [spread    |-> spreadArg,
                                  timeRange |-> rangeArg,
                                  request   |-> RequestedRanges(rangeArg, today),
                                  pending   |-> Indicators,
                                  overtaken |-> FALSE])
    /\ lastPrimary' = "none"
    /\ lastFailed' = {}

\* useEffect(() => { loadData(); }, [timeRange]) on mount; the spread effect
\* finds no dashboardData and the auto-refresh effect starts an interval only
\* when autoRefresh is set
Mount ==
    /\ ~mounted
    /\ mounted' = TRUE
    /\ StartLoad(spread, timeRange)
    /\ UNCHANGED <<dashboardData, spread, timeRange, autoRefresh, provider, call,
                   lastStoreStale>>

\* faulty variant: the refresh button is not disabled while loading
RefreshWhileLoading ==
    /\ mounted /\ ~ErrorView
    /\ StartLoad(spread, timeRange)
    /\ UNCHANGED <<dashboardData, spread, timeRange, autoRefresh, mounted, provider, call,
                   lastStoreStale>>

\* Header's refresh button: onClick={onRefresh}, disabled={isLoading}
Refresh ==
    /\ mounted /\ ~ErrorView /\ ~isLoading
    /\ StartLoad(spread, timeRange)
    /\ UNCHANGED <<dashboardData, spread, timeRange, autoRefresh, mounted, provider, call,
                   lastStoreStale>>

\* the error page's "Try Again" button: onClick={loadData}
Retry ==
    /\ mounted /\ ErrorView
    /\ StartLoad(spread, timeRange)
    /\ UNCHANGED <<dashboardData, spread, timeRange, autoRefresh, mounted, provider, call,
                   lastStoreStale>>

\* a time-range button of TrendChart (disabled={isLoading}): setTimeRange,
\* then the [timeRange] effect calls the loadData of the new render
ChangeTimeRange(r) ==
    /\ mounted /\ ~ErrorView /\ ~isLoading
    /\ r # timeRange
    /\ timeRange' = r
    /\ StartLoad(spread, r)
    /\ UNCHANGED <<dashboardData, spread, autoRefresh, mounted, provider, call,
                   lastStoreStale>>

\* the interval of the auto-refresh effect: it calls the loadData of the
\* render in which the effect ran (the mount render), whatever isLoading is
AutoRefreshTick ==
    /\ mounted /\ autoRefresh
    /\ StartLoad(DefaultSpread, "90d")
    /\ UNCHANGED <<dashboardData, spread, timeRange, autoRefresh, mounted, provider, call,
                   lastStoreStale>>

\* the [spread] effect: `if (dashboardData) { updateEstimatedRates(); }`
SpreadEffect(data, v) ==
    IF IsSome(data) THEN Some(UpdatedDashboardData(Get(data), v)) ELSE data

\* the SpreadControl (disabled while loading): setSpread, then the [spread]
\* effect runs updateEstimatedRates when a snapshot exists
ChangeSpread(v) ==
    /\ mounted /\ ~ErrorView /\ ~isLoading
    /\ v # spread
    /\ spread' = v
    /\ dashboardData' = SpreadEffect(dashboardData, v)
    /\ UNCHANGED <<isLoading, timeRange, error, autoRefresh, mounted, loads,
                   provider, call, lastPrimary, lastFailed, lastStoreStale>>

\* the loads left in flight when invocation i has completed
Without(i) == [k \in 1..(Len(loads) - 1) |-> IF k < i THEN loads[k] ELSE loads[k + 1]]

\* ... the older of them being overtaken when invocation i stored a snapshot
WithoutOvertaking(i) ==
    [k \in 1..(Len(loads) - 1) |->
        IF k < i THEN [loads[k] EXCEPT !.overtaken = TRUE] ELSE loads[k + 1]]

\* one fetch of invocation i settles: a secondary resolves or fails into its
\* .catch, or the primary resolves.  What it settled with is read at the join.
FetchSettle(i, ind) ==
    /\ i \in 1..Len(loads)
    /\ ind \in loads[i].pending
    /\ loads' = [loads EXCEPT ![i].pending = @ \ {ind}]
    /\ UNCHANGED <<dashboardData, isLoading, spread, timeRange, error, autoRefresh,
                   mounted, provider, call, lastPrimary, lastFailed, lastStoreStale>>

\* faulty variant: no fetch carries a .catch
CatchesNothing(ind) == FALSE

\* the fetches whose rejection is caught and turned into []:
\* fetchMortgage30, fetchMortgage15, fetchCPI and fetchCorePCE carry a .catch
CatchesFailure(ind) == ind \in Secondaries

\* faulty variant: the catch block also drops the stored snapshot
LoadFailClearing(i, ind) ==
    /\ i \in 1..Len(loads)
    /\ ind \in loads[i].pending \cap provider.mayFail
    /\ ~CatchesFailure(ind)
    /\ error' = Some(FetchErrorMessage)
    /\ isLoading' = FALSE
    /\ loads' = Without(i)
    /\ lastPrimary' = IF ind = Primary THEN "rejected" ELSE "none"
    /\ lastFailed' = {ind} \ {Primary}
    /\ dashboardData' = None
    /\ UNCHANGED <<spread, timeRange, autoRefresh, mounted, provider, call, lastStoreStale>>

\* a fetch of invocation i rejects uncaught (fetchDgs10): Promise.all rejects at
\* once, whatever else is pending; catch sets the error, finally clears isLoading
LoadFail(i, ind) ==
    /\ i \in 1..Len(loads)
    /\ ind \in loads[i].pending \cap provider.mayFail
    /\ ~CatchesFailure(ind)
    /\ error' = Some(FetchErrorMessage)
    /\ isLoading' = FALSE
    /\ loads' = Without(i)
    /\ lastPrimary' = IF ind = Primary THEN "rejected" ELSE "none"
    /\ lastFailed' = {ind} \ {Primary}
    /\ UNCHANGED <<dashboardData, spread, timeRange, autoRefresh, mounted, provider, call,
                   lastStoreStale>>

\* the secondary fetches that can have failed into their .catch
Catchable == {ind \in Secondaries \cap provider.mayFail : CatchesFailure(ind)}

\* faulty variant: the join waits for the 10-year fetch only
PrimarySettled(load) == Primary \notin load.pending

\* `await Promise.all([...])` resolves: every one of the five fetches has
\* resolved, or has failed into its .catch
AllSettled(load) == load.pending = {}

\* faulty variant: no finally block, isLoading stays set after the throw
LoadJoinEmptyStillLoading(i) ==
    /\ i \in 1..Len(loads)
    /\ AllSettled(loads[i])
    /\ <<>> \in provider.treasury
    /\ \E failed \in SUBSET Catchable : lastFailed' = failed
    /\ lastPrimary' = "empty"
    /\ error' = Some(NoTreasuryMessage)
    /\ loads' = Without(i)
    /\ UNCHANGED <<dashboardData, isLoading, spread, timeRange, autoRefresh, mounted,
                   provider, call, lastStoreStale>>

\* all five fetches of invocation i have settled and the 10-year series is
\* empty: `throw new Error('No Treasury data available')`
LoadJoinEmpty(i) ==
    /\ i \in 1..Len(loads)
    /\ AllSettled(loads[i])
    /\ <<>> \in provider.treasury
    /\ \E failed \in SUBSET Catchable : lastFailed' = failed
    /\ lastPrimary' = "empty"
    /\ error' = Some(NoTreasuryMessage)
    /\ isLoading' = FALSE
    /\ loads' = Without(i)
    /\ UNCHANGED <<dashboardData, spread, timeRange, autoRefresh, mounted, provider, call,
                   lastStoreStale>>

\* all five fetches of invocation i have settled and the 10-year series is not
\* empty: the snapshot is built, with the spread of the invocation, and stored.
\* A failed secondary fetch has delivered [] from its .catch.
LoadJoin(i) ==
    /\ i \in 1..Len(loads)
    /\ AllSettled(loads[i])
    /\ \E failed \in SUBSET Catchable :
       \E treasuryObs \in provider.treasury \ {<<>>} :
       \E mortgageObs \in IF "MORTGAGE30US" \in failed THEN {<<>>} ELSE provider.mortgage30 :
       \E mortgage15Obs \in IF "MORTGAGE15US" \in failed THEN {<<>>} ELSE provider.mortgage15 :
       \E cpiObs \in IF "CPIAUCSL" \in failed THEN {<<>>} ELSE provider.cpi :
       \E corePceObs \in IF "PCEPILFE" \in failed THEN {<<>>} ELSE provider.corePce :
       \E now \in {c \in ClockReadings : c >= loads[i].request[Primary].end} :
          /\ dashboardData' = Some(BuildDashboardData(
                 treasuryObs, mortgageObs, mortgage15Obs, cpiObs, corePceObs,
                 loads[i].spread, now))
          /\ lastFailed' = failed
    /\ lastPrimary' = "data"
    /\ isLoading' = FALSE
    /\ lastStoreStale' = loads[i].overtaken
    /\ loads' = WithoutOvertaking(i)
    /\ UNCHANGED <<spread, timeRange, error, autoRefresh, mounted, provider, call>>

Next ==
    \/ Mount
    \/ Refresh
    \/ Retry
    \/ \E r \in TimeRanges : ChangeTimeRange(r)
    \/ \E v \in SpreadChoices : ChangeSpread(v)
    \/ \E i \in 1..MaxInFlight, ind \in Indicators : FetchSettle(i, ind)
    \/ \E i \in 1..MaxInFlight, ind \in Indicators : LoadFail(i, ind)
    \/ \E i \in 1..MaxInFlight : LoadJoinEmpty(i)
    \/ \E i \in 1..MaxInFlight : LoadJoin(i)

Spec == Init /\ [][Next]_vars

\* the continuation of loadData after `await Promise.all` runs once the
\* promise has settled: the event loop does not starve it
Continues == \E i \in 1..MaxInFlight : LoadJoin(i) \/ LoadJoinEmpty(i)

\* the Dashboard against the provider with 10-year data only
InitLive ==
    /\ dashboardData = None
    /\ isLoading = TRUE
    /\ spread = DefaultSpread
    /\ timeRange = "90d"
    /\ error = None
    /\ autoRefresh = FALSE
    /\ mounted = FALSE
    /\ loads = <<>>
    /\ provider = SmallProvider
    /\ lastPrimary = "none"
    /\ lastFailed = {}
    /\ lastStoreStale = FALSE
    /\ call = NoCall

SpecLive == InitLive /\ [][Next]_vars /\ WF_vars(Continues)

(***************************************************************************)
(* The Dashboard with the auto-refresh switch on: the interval calls       *)
(* loadData while another invocation may be in flight.                     *)
(***************************************************************************)
InitOverlap ==
    /\ dashboardData = None
    /\ isLoading = TRUE
    /\ spread = DefaultSpread
    /\ timeRange = "90d"
    /\ error = None
    /\ autoRefresh = TRUE
    /\ mounted = FALSE
    /\ loads = <<>>
    /\ provider = SmallProvider
    /\ lastPrimary = "none"
    /\ lastFailed = {}
    /\ lastStoreStale = FALSE
    /\ call = NoCall

NextOverlap ==
    \/ Mount
    \/ AutoRefreshTick
    \/ Refresh
    \/ Retry
    \/ \E i \in 1..MaxInFlight, ind \in Indicators : FetchSettle(i, ind)
    \/ \E i \in 1..MaxInFlight, ind \in Indicators : LoadFail(i, ind)
    \/ \E i \in 1..MaxInFlight : LoadJoinEmpty(i)
    \/ \E i \in 1..MaxInFlight : LoadJoin(i)

SpecOverlap == InitOverlap /\ [][NextOverlap]_vars

(***************************************************************************)
(* The charts' alignment of series on date labels (TrendChart.tsx,         *)
(* InflationChart), applied to series of any content                       *)
(***************************************************************************)
dashVars == <<dashboardData, isLoading, spread, timeRange, error, autoRefresh, mounted,
              loads, provider, lastPrimary, lastFailed, lastStoreStale>>

MaxSparseLen == 2

LibDates == {20250605, 20250611, 20250612}

LibValues == {0, 6840, 6850}

LibPoints == { Obs(d, v) : d \in LibDates, v \in LibValues }

\* the series of at most n points, in any order, dates repeated or not
SeriesUpTo(n) == UNION { [1..k -> LibPoints] : k \in 0..n }

\* ascending runs of distinct dates (what treasuryData.map(p => p.date) gives)
RECURSIVE AscendingDates(_)
AscendingDates(dates) ==
    IF dates = {}
    THEN <<>>
    ELSE LET first == CHOOSE d \in dates : \A e \in dates : d <= e
         IN  <<first>> \o AscendingDates(dates \ {first})

LabelChoices == { AscendingDates(ds) : ds \in SUBSET LibDates }

\* the positions of a series that carry a date
Positions(data, date) == {i \in 1..Len(data) : data[i].date = date}

\* new Map(sparseData.map(point => [point.date, point.value])).get(date):
\* a later entry of a key replaces the earlier one; undefined without entry
MapGet(sparseData, date) ==
    LET hits == Positions(sparseData, date)
    IN  IF hits = {}
        THEN None
        ELSE Some(sparseData[CHOOSE i \in hits : \A j \in hits : i >= j].value)

\* `x || null`: undefined, and the falsy number 0, become null
OrNull(o) == IF IsSome(o) /\ Get(o) # 0 THEN o ELSE None

\* TrendChart: labels.map(date => dataMap.get(date) || null)
alignDataToLabels_TrendChart(sparseData, labels) ==
    [i \in 1..Len(labels) |-> OrNull(MapGet(sparseData, labels[i]))]

\* data.find(d => d.date === date): the first point of that date
FindByDate(data, date) ==
    LET hits == Positions(data, date)
    IN  IF hits = {}
        THEN None
        ELSE Some(data[CHOOSE i \in hits : \A j \in hits : i <= j])

\* InflationChart: dates.map(date => { point = data.find(...);
\*                                      return point ? point.value : null })
alignDataToLabels_InflationChart(data, dates) ==
    [i \in 1..Len(dates) |->
        IF IsSome(FindByDate(data, dates[i]))
        THEN Some(Get(FindByDate(data, dates[i])).value)
        ELSE None]

\* Array.prototype.sort() on ISO date strings: ascending, duplicates kept
RECURSIVE SortDates(_)
SortDates(dates) ==
    IF Len(dates) = 0
    THEN <<>>
    ELSE LET m    == CHOOSE i \in 1..Len(dates) :
                        /\ \A j \in 1..Len(dates) : dates[i] <= dates[j]
                        /\ \A j \in 1..(i - 1) : dates[j] # dates[i]
             rest == [k \in 1..(Len(dates) - 1) |->
                         IF k < m THEN dates[k] ELSE dates[k + 1]]
         IN  <<dates[m]>> \o SortDates(rest)

\* faulty variant: the sorted dates are used as they are, repeats included
KeepAllDates(allDates) == allDates

\* [...new Set(allDates)]: the first occurrence of every date, in order
UniqueDates(allDates) ==
    LET Keep(i) == \A j \in 1..(i - 1) : allDates[j] # allDates[i]
        F[i \in 0..Len(allDates)] ==
            IF i = 0 THEN <<>>
            ELSE IF Keep(i) THEN Append(F[i - 1], allDates[i]) ELSE F[i - 1]
    IN  F[Len(allDates)]

DatesOf(data) == [i \in 1..Len(data) |-> data[i].date]

\* allDates = [...cpiData.map(d => d.date), ...corePceData.map(d => d.date)].sort()
AllDates(cpiData, corePceData) == SortDates(DatesOf(cpiData) \o DatesOf(corePceData))

\* TrendChart renders: an optional series, of any content, is aligned on the
\* treasury dates
RenderTrendChart ==
    /\ call = NoCall
    /\ \E sparseData \in SeriesUpTo(MaxSparseLen), labels \in LabelChoices :
          call' = [fn     |-> "TrendChart",
                   args   |-> <<sparseData, labels>>,
                   result |-> alignDataToLabels_TrendChart(sparseData, labels)]
    /\ UNCHANGED dashVars

\* InflationChart renders: both series are aligned on the union of their dates
RenderInflationChart ==
    /\ call = NoCall
    /\ \E cpiData \in SeriesUpTo(MaxSparseLen), corePceData \in SeriesUpTo(MaxSparseLen - 1) :
          call' = [fn     |-> "InflationChart",
                   args   |-> <<cpiData, corePceData>>,
                   result |->
                      LET uniqueDates == UniqueDates(AllDates(cpiData, corePceData))
                      IN  [uniqueDates    |-> uniqueDates,
                           cpiAligned     |-> alignDataToLabels_InflationChart(
                                                  cpiData, uniqueDates),
                           corePceAligned |-> alignDataToLabels_InflationChart(
                                                  corePceData, uniqueDates)]]
    /\ UNCHANGED dashVars

NextCharts ==
    \/ RenderTrendChart
    \/ RenderInflationChart

SpecCharts == Init /\ [][NextCharts]_vars

(***************************************************************************)
(* lib/math.ts applied on its own.  Rates and values are in thousandths;   *)
(* a result of toFixed(4) is in ten-thousandths, a result of               *)
(* normalizeValues in thousandths of the unit.  toFixed rounds the decimal *)
(* expansion of a binary double: on the arguments drawn below the double   *)
(* lies on the side of every rounding tie that the decimal rule gives.     *)
(***************************************************************************)
MaxValuesLen == 3

MathValues == {0, 4250, 4256, 5000}

MathYields == {-1795, 0, 4250, 4257}

MathSpreads == {1400, 1800, 1950, 2450}

\* the arrays of at most n values
ValueSeries(n) == UNION { [1..k -> MathValues] : k \in 0..n }

\* values.reduce((sum, val) => sum + val, 0)
Sum(values) ==
    LET F[i \in 0..Len(values)] == IF i = 0 THEN 0 ELSE F[i - 1] + values[i]
    IN  F[Len(values)]

\* faulty variant: a zero base falls back to the whole of the current value
calculatePercentageChangeOfCurrent(current, previous) ==
    IF previous = 0
    THEN current
    ELSE RoundDiv((current - previous) * 10000, previous)

\* Number(((current - previous) / previous).toFixed(4)); 0 for a zero base
calculatePercentageChange(current, previous) ==
    IF previous = 0
    THEN 0
    ELSE RoundDiv((current - previous) * 10000, previous)

\* Number((((currentCPI - previousMonthCPI) / previousMonthCPI) * 100).toFixed(3))
calculateMonthlyInflationRate(currentCPI, previousMonthCPI) ==
    IF previousMonthCPI = 0
    THEN 0
    ELSE RoundDiv((currentCPI - previousMonthCPI) * 100 * 1000, previousMonthCPI)

\* values.slice(from, to) with 0-based bounds, `to` excluded
Slice(values, from, to) == SubSeq(values, from + 1, to)

\* faulty variant: the loop starts one position late
movingAverageLate(values, periods) ==
    LET Loop[i \in (periods - 1)..Len(values)] ==
            IF i >= Len(values)
            THEN <<>>
            ELSE LET slice   == Slice(values, i - periods + 1, i + 1)
                     average == 10 * RoundDiv(Sum(slice), 10 * periods)
                 IN  <<average>> \o Loop[i + 1]
    IN  IF periods <= 0 \/ periods > Len(values) THEN <<>> ELSE Loop[periods]

\* for (i = periods - 1; i < values.length; i++) result.push(
\*     Number((slice(i - periods + 1, i + 1).reduce(...) / periods).toFixed(2)))
movingAverage(values, periods) ==
    LET Loop[i \in (periods - 1)..Len(values)] ==
            IF i >= Len(values)
            THEN <<>>
            ELSE LET slice   == Slice(values, i - periods + 1, i + 1)
                     average == 10 * RoundDiv(Sum(slice), 10 * periods)
                 IN  <<average>> \o Loop[i + 1]
    IN  IF periods <= 0 \/ periods > Len(values) THEN <<>> ELSE Loop[periods - 1]

\* { min: Math.min(...values), max: Math.max(...values) }; zeros when empty
findRange(values) ==
    IF Len(values) = 0
    THEN [min |-> 0, max |-> 0]
    ELSE [min |-> CHOOSE v \in {values[i] : i \in 1..Len(values)} :
                      \A i \in 1..Len(values) : v <= values[i],
          max |-> CHOOSE v \in {values[i] : i \in 1..Len(values)} :
                      \A i \in 1..Len(values) : v >= values[i]]

\* the integer nearest to the square root of n / d (d > 0, n >= 0), which
\* is at most `most`
RoundSqrt(n, d, most) ==
    CHOOSE r \in 0..most :
        /\ (r = 0 \/ (2 * r - 1) * (2 * r - 1) * d <= 4 * n)
        /\ 4 * n < (2 * r + 1) * (2 * r + 1) * d

\* the sample standard deviation, toFixed(3); 0 below two values.  With
\* mean = S / n the squared differences sum to (n * Q - S * S) / n.
calculateVolatility(values) ==
    IF Len(values) < 2
    THEN 0
    ELSE LET n == Len(values)
             S == Sum(values)
             Q == Sum([i \in 1..n |-> values[i] * values[i]])
         IN  RoundSqrt(n * Q - S * S, n * (n - 1), findRange(values).max + 1)

\* faulty variant: the values are divided by the maximum, not by the range
normalizeValuesByMax(values) ==
    LET min   == findRange(values).min
        max   == findRange(values).max
        range == max - min
    IN  IF range = 0
        THEN [i \in 1..Len(values) |-> 0]
        ELSE [i \in 1..Len(values) |-> RoundDiv((values[i] - min) * 1000, max)]

\* values.map(val => Number(((val - min) / range).toFixed(3))); zeros when
\* the range is 0
normalizeValues(values) ==
    LET min   == findRange(values).min
        max   == findRange(values).max
        range == max - min
    IN  IF range = 0
        THEN [i \in 1..Len(values) |-> 0]
        ELSE [i \in 1..Len(values) |-> RoundDiv((values[i] - min) * 1000, range)]

\* each function of the library applied to arguments of the caller's choice
CallEstimate(treasuryYield, spreadArg) ==
    /\ call = NoCall
    /\ call' = [fn     |-> "estimate",
                args   |-> <<treasuryYield, spreadArg>>,
                result |-> [estimated       |->
                               estimateMortgageRate(treasuryYield, spreadArg),
                            estimated15Year |->
                               estimate15YearMortgageRate(treasuryYield, spreadArg)]]
    /\ UNCHANGED dashVars

CallPercentageChange(current, previous) ==
    /\ call = NoCall
    /\ call' = [fn     |-> "calculatePercentageChange",
                args   |-> <<current, previous>>,
                result |-> calculatePercentageChange(current, previous)]
    /\ UNCHANGED dashVars

CallInflationRate(current, previous) ==
    /\ call = NoCall
    /\ call' = [fn     |-> "calculateInflationRate",
                args   |-> <<current, previous>>,
                result |-> calculateInflationRate(current, previous)]
    /\ UNCHANGED dashVars

CallMonthlyInflationRate(current, previous) ==
    /\ call = NoCall
    /\ call' = [fn     |-> "calculateMonthlyInflationRate",
                args   |-> <<current, previous>>,
                result |-> calculateMonthlyInflationRate(current, previous)]
    /\ UNCHANGED dashVars

CallMovingAverage(values, periods) ==
    /\ call = NoCall
    /\ call' = [fn     |-> "movingAverage",
                args   |-> <<values, periods>>,
                result |-> movingAverage(values, periods)]
    /\ UNCHANGED dashVars

CallVolatility(values) ==
    /\ call = NoCall
    /\ call' = [fn     |-> "calculateVolatility",
                args   |-> <<values>>,
                result |-> calculateVolatility(values)]
    /\ UNCHANGED dashVars

CallFindRange(values) ==
    /\ call = NoCall
    /\ call' = [fn     |-> "findRange",
                args   |-> <<values>>,
                result |-> findRange(values)]
    /\ UNCHANGED dashVars

CallNormalizeValues(values) ==
    /\ call = NoCall
    /\ call' = [fn     |-> "normalizeValues",
                args   |-> <<values>>,
                result |-> normalizeValues(values)]
    /\ UNCHANGED dashVars

NextMath ==
    \/ \E y \in MathYields, v \in MathSpreads : CallEstimate(y, v)
    \/ \E c \in MathValues, p \in MathValues : CallPercentageChange(c, p)
    \/ \E c \in MathValues, p \in MathValues : CallInflationRate(c, p)
    \/ \E c \in MathValues, p \in MathValues : CallMonthlyInflationRate(c, p)
    \/ \E values \in ValueSeries(MaxValuesLen), periods \in (-1)..(MaxValuesLen + 1) :
          CallMovingAverage(values, periods)
    \/ \E values \in ValueSeries(MaxValuesLen) : CallVolatility(values)
    \/ \E values \in ValueSeries(MaxValuesLen) : CallFindRange(values)
    \/ \E values \in ValueSeries(MaxValuesLen) : CallNormalizeValues(values)

SpecMath == Init /\ [][NextMath]_vars

(***************************************************************************)
(* The Series Provider client (fetchFredSeries): what it returns for a     *)
(* response of the FRED endpoint.  The value of a FredObservation is a     *)
(* string, here the sequence of its characters; parseFloat reads the       *)
(* longest decimal literal at its start, after leading white space, and    *)
(* gives NaN (None) when there is none.                                    *)
(***************************************************************************)
MaxResponseLen == 2

Digits == {"0", "2", "4", "5"}

DigitValue(c) == CASE c = "0" -> 0 [] c = "2" -> 2 [] c = "4" -> 4 [] c = "5" -> 5

\* the string without its first n characters
Drop(s, n) == SubSeq(s, n + 1, Len(s))

\* the number of leading characters of s that lie in the set chars
RECURSIVE LeadingIn(_, _)
LeadingIn(s, chars) == IF s # <<>> /\ s[1] \in chars THEN 1 + LeadingIn(Tail(s), chars) ELSE 0

\* the digits of s read as an integer
RECURSIVE DigitsValue(_)
DigitsValue(s) == IF s = <<>> THEN 0 ELSE 10 * DigitsValue(SubSeq(s, 1, Len(s) - 1)) + DigitValue(s[Len(s)])

\* the fraction digits of s in thousandths (three digits at most are drawn)
FractionValue(s) == CASE Len(s) = 0 -> 0 [] Len(s) = 1 -> 100 * DigitsValue(s) [] Len(s) = 2 -> 10 * DigitsValue(s) [] OTHER -> DigitsValue(SubSeq(s, 1, 3))

parseFloat(str) ==
    LET trimmed  == Drop(str, LeadingIn(str, {" "}))
        negative == trimmed # <<>> /\ trimmed[1] = "-"
        unsigned == IF negative THEN Tail(trimmed) ELSE trimmed
        intLen   == LeadingIn(unsigned, Digits)
        rest     == Drop(unsigned, intLen)
        hasPoint == rest # <<>> /\ rest[1] = "."
        fracLen  == IF hasPoint THEN LeadingIn(Tail(rest), Digits) ELSE 0
        whole    == DigitsValue(SubSeq(unsigned, 1, intLen))
        fraction == IF hasPoint THEN FractionValue(SubSeq(Tail(rest), 1, fracLen)) ELSE 0
        size     == 1000 * whole + fraction
    IN  IF intLen = 0 /\ fracLen = 0 THEN None
        ELSE Some(IF negative THEN 0 - size ELSE size)

\* the value strings a FRED response may carry
RawValues ==
    { <<".">>, <<>>, <<"4", ".", "2", "5">>, <<"a">>, <<"4", "a">>, <<" ", "4">>,
      <<"-", "4">>, <<".", "5">>, <<"4", ".">>, <<"-">>, <<"-", ".">>,
      <<"4", ".", "2", ".", "5">>, <<"0">> }

\* responses of n observations at most, on consecutive days (sort_order: 'asc')
FredObservations(n) ==
    UNION { [1..k -> [date : {20250601}, value : RawValues]] : k \in 0..n }

WithDates(observations) ==
    [i \in 1..Len(observations) |-> [date |-> 20250600 + i, value |-> observations[i].value]]

\* a response: not ok (HTTP error), without observations, or a list
FredResponses ==
    {[ok |-> FALSE, observations |-> None], [ok |-> TRUE, observations |-> None]}
        \cup {[ok |-> TRUE, observations |-> Some(WithDates(o))] : o \in FredObservations(MaxResponseLen)}

fetchFredSeriesKeepingNaN(response) ==
    IF ~response.ok THEN [thrown |-> TRUE, observations |-> <<>>]
    ELSE IF response.observations = None \/ Len(Get(response.observations)) = 0
    THEN [thrown |-> FALSE, observations |-> <<>>]
    ELSE LET Keep(obs) == obs.value # <<".">>
             kept == SelectSeq(Get(response.observations), Keep)
         IN  [thrown |-> FALSE,
              observations |-> [i \in 1..Len(kept) |->
                                  [date |-> kept[i].date, value |-> parseFloat(kept[i].value)]]]

\* the result: thrown, or the observations with their values parsed (an
\* Observation's value is Some(number); NaN would be None)
fetchFredSeries(response) ==
    IF ~response.ok THEN [thrown |-> TRUE, observations |-> <<>>]
    ELSE IF response.observations = None \/ Len(Get(response.observations)) = 0
    THEN [thrown |-> FALSE, observations |-> <<>>]
    ELSE LET Keep(obs) == obs.value # <<".">> /\ parseFloat(obs.value) # None
             kept == SelectSeq(Get(response.observations), Keep)
         IN  [thrown |-> FALSE,
              observations |-> [i \in 1..Len(kept) |->
                                  [date |-> kept[i].date, value |-> parseFloat(kept[i].value)]]]

CallFetchFredSeries(response) ==
    /\ call = NoCall
    /\ call' = [fn |-> "fetchFredSeries", args |-> <<response>>,
                result |-> fetchFredSeries(response)]
    /\ UNCHANGED dashVars

NextProvider ==
    \E response \in FredResponses : CallFetchFredSeries(response)

SpecProvider == Init /\ [][NextProvider]_vars

(***************************************************************************)
(* InflationInsights (InflationInsights.tsx): the annual rates the panel   *)
(* prints, formatPercent(rate, 1), from the historical series it is given. *)
(* The Dashboard renders the panel only when the snapshot has an           *)
(* inflation block.  A printed rate is in thousandths; a rate over a zero  *)
(* index value (NaN or Infinity) is None.                                  *)
(***************************************************************************)
InsightsYearPoints == 12

\* formatPercent(((current - year) / year) * 100, 1)
InsightsAnnualRate(data) ==
    LET current == data[Len(data)]
        year    == IF Len(data) >= InsightsYearPoints
                   THEN data[Len(data) - InsightsYearPoints + 1]
                   ELSE current
    IN  IF year.value = 0 THEN None
        ELSE Some(100 * RoundDiv((current.value - year.value) * 1000, year.value))

\* formatPercent(rate, 1) of a rate in thousandths
FormatPercent1(rate) == 100 * RoundDiv(rate, 100)

\* what the panel shows: nothing (not rendered, or the loading skeleton) or
\* the two printed rates
InflationInsights(data, loading) ==
    IF data = None \/ Get(data).inflationData = None THEN None
    ELSE LET cpiData     == FromChart(Get(data).historicalData.cpiData)
             corePceData == FromChart(Get(data).historicalData.corePceData)
         IN  IF loading \/ Len(cpiData) = 0 \/ Len(corePceData) = 0 THEN None
             ELSE Some([cpiAnnualRate     |-> InsightsAnnualRate(cpiData),
                        corePceAnnualRate |-> InsightsAnnualRate(corePceData)])

(***************************************************************************)
(* The SpreadControl (SpreadControl.tsx) on its own: a range input with    *)
(* min, max and step, three preset buttons, and the isDisabled prop that   *)
(* the Dashboard binds to isLoading.  onChange is the Dashboard's          *)
(* setSpread, followed by the [spread] effect.  call records the handler   *)
(* that ran last, the value it was given, the spread before it and         *)
(* isDisabled.                                                             *)
(***************************************************************************)
SliderMin == 1200

SliderMax == 3000

SliderStep == 50

Presets == {1500, 1900, 2400}

\* faulty variant: the steps counted from zero instead of from min
SliderValueFromZero(k) == SliderStep * k

\* the k-th position of <input type="range" min max step>: the values the
\* element can hold are min + k * step, up to max
SliderValue(k) == SliderMin + SliderStep * k

SliderPositions == 0..((SliderMax - SliderMin) \div SliderStep)

controlVars == <<timeRange, error, autoRefresh, mounted, loads, provider,
                 lastPrimary, lastFailed, lastStoreStale>>

\* handleSliderChange: the input is disabled={isDisabled}, so it fires only
\* while the control is enabled
SliderChange(k) ==
    /\ ~isLoading
    /\ spread' = SliderValue(k)
    /\ dashboardData' = SpreadEffect(dashboardData, spread')
    /\ call' = [fn |-> "handleSliderChange", args |-> <<SliderValue(k), spread, isLoading>>,
                result |-> spread']
    /\ UNCHANGED <<isLoading, controlVars>>

\* handlePresetClick: `if (!isDisabled) { onChange(presetValue); }`
PresetClick(presetValue) ==
    /\ spread' = IF ~isLoading THEN presetValue ELSE spread
    /\ dashboardData' = IF ~isLoading THEN SpreadEffect(dashboardData, presetValue)
                        ELSE dashboardData
    /\ call' = [fn |-> "handlePresetClick", args |-> <<presetValue, spread, isLoading>>,
                result |-> spread']
    /\ UNCHANGED <<isLoading, controlVars>>

\* the Dashboard renders the control again with another isDisabled
Rerender(isDisabled) ==
    /\ isDisabled # isLoading
    /\ isLoading' = isDisabled
    /\ UNCHANGED <<dashboardData, spread, call, controlVars>>

NextControl ==
    \/ \E k \in SliderPositions : SliderChange(k)
    \/ \E presetValue \in Presets : PresetClick(presetValue)
    \/ \E isDisabled \in BOOLEAN : Rerender(isDisabled)

SpecControl == Init /\ [][NextControl]_vars

(***************************************************************************)
(* MortgageCalculator.calculatePayment: the payoff simulation, one step    *)
(* per loop iteration.  Money is in cents, the interest rate in            *)
(* thousandths of a percent, the monthly rate in ten-thousandths, and      *)
(* every product is rounded to its unit; NaN is None.  call holds the      *)
(* arguments (the form's state and extraPrincipal) and, as its result,     *)
(* the locals of the invocation.                                           *)
(***************************************************************************)
LoanAmounts == {-100000, 0, 100000}

InterestRates == {-1200, 0, 6000}

LoanTerms == {15, 30}

ExtraPrincipals == {-100, 0, 5000, 300000}

\* interestRate / 100 / 12, in ten-thousandths
MonthlyRate(interestRate) == RoundDiv(interestRate, 120)

\* Math.pow(1 + monthlyRate, n), in ten-thousandths, by repeated squaring
RECURSIVE PowOnePlus(_, _)
PowOnePlus(monthlyRate, n) == IF n = 0 THEN 10000 ELSE IF n % 2 = 0 THEN LET half == PowOnePlus(monthlyRate, n \div 2) IN RoundDiv(half * half, 10000) ELSE RoundDiv(PowOnePlus(monthlyRate, n - 1) * (10000 + monthlyRate), 10000)

\* principal * (rate * pow) / (pow - 1), in cents; 0 / 0 is NaN
MonthlyPrincipalInterest(principal, monthlyRate, numberOfPayments) ==
    LET pow == PowOnePlus(monthlyRate, numberOfPayments)
    IN  IF pow = 10000 THEN None
        ELSE Some(RoundDiv(principal * RoundDiv(monthlyRate * pow * 100, pow - 10000),
                           1000000))

\* faulty variant: the principal payment is not capped at the balance
PrincipalPaymentUncapped(payment, monthlyInterest, extraPrincipal, balance) ==
    IF payment = None THEN None
    ELSE Some(Get(payment) - monthlyInterest + extraPrincipal)

\* `let principalPayment = monthlyPrincipalInterest - monthlyInterest +
\* extraPrincipal; if (principalPayment > balance) principalPayment = balance`
PrincipalPayment(payment, monthlyInterest, extraPrincipal, balance) ==
    IF payment = None THEN None
    ELSE LET due == Get(payment) - monthlyInterest + extraPrincipal
         IN  Some(IF due > balance THEN balance ELSE due)

\* `while (balance > 0.01 && monthsToPayoff < maxMonths)`
LoopContinues(args, locals) ==
    /\ locals.balance # None
    /\ Get(locals.balance) > 1
    /\ locals.monthsToPayoff < args.loanTerm * 12

CalcStart(loanAmount, interestRate, loanTerm, extraPrincipal) ==
    /\ call = NoCall
    /\ call' = [fn     |-> "calculatePayment",
                args   |-> [loanAmount |-> loanAmount, interestRate |-> interestRate,
                            loanTerm |-> loanTerm, extraPrincipal |-> extraPrincipal],
                result |-> [pc |-> "loop",
                            monthlyPrincipalInterest |->
                                MonthlyPrincipalInterest(loanAmount,
                                    MonthlyRate(interestRate), loanTerm * 12),
                            balance |-> Some(loanAmount),
                            totalInterestPaid |-> Some(0),
                            monthsToPayoff |-> 0]]
    /\ UNCHANGED dashVars

\* one iteration of the loop body
CalcIterate ==
    /\ call.fn = "calculatePayment"
    /\ call.result.pc = "loop"
    /\ LoopContinues(call.args, call.result)
    /\ LET balance         == Get(call.result.balance)
           monthlyInterest == RoundDiv(balance * MonthlyRate(call.args.interestRate), 10000)
           principalPayment ==
               PrincipalPayment(call.result.monthlyPrincipalInterest, monthlyInterest,
                                call.args.extraPrincipal, balance)
       IN  call' = [call EXCEPT
                       !.result.monthsToPayoff = @ + 1,
                       !.result.totalInterestPaid = Some(Get(@) + monthlyInterest),
                       !.result.balance = IF principalPayment = None THEN None
                                          ELSE Some(balance - Get(principalPayment))]
    /\ UNCHANGED dashVars

\* the loop has ended: `if (extraPrincipal === 0)` the standard figures
\* replace the simulated ones, and the results are returned
CalcReturn ==
    /\ call.fn = "calculatePayment"
    /\ call.result.pc = "loop"
    /\ ~LoopContinues(call.args, call.result)
    /\ LET numberOfPayments == call.args.loanTerm * 12
           payment          == call.result.monthlyPrincipalInterest
       IN  call' = IF call.args.extraPrincipal = 0
                   THEN [call EXCEPT
                            !.result.pc = "done",
                            !.result.totalInterestPaid =
                                IF payment = None THEN None
                                ELSE Some(Get(payment) * numberOfPayments
                                            - call.args.loanAmount),
                            !.result.monthsToPayoff = numberOfPayments]
                   ELSE [call EXCEPT !.result.pc = "done"]
    /\ UNCHANGED dashVars

NextCalc ==
    \/ \E loanAmount \in LoanAmounts, interestRate \in InterestRates,
          loanTerm \in LoanTerms, extraPrincipal \in ExtraPrincipals :
             CalcStart(loanAmount, interestRate, loanTerm, extraPrincipal)
    \/ CalcIterate
    \/ CalcReturn

\* an invocation keeps running: nothing suspends the synchronous loop
SpecCalc == Init /\ [][NextCalc]_vars /\ WF_vars(CalcIterate \/ CalcReturn)

(***************************************************************************)
(* Properties                                                              *)
(***************************************************************************)
\* the numbers of a chart series
Values(chart) == [i \in 1..Len(chart) |-> chart[i].value]

\* the snapshot a fresh load would build from the series held in snapshot d,
\* under spread v, at clock reading now
FreshLoad(d, v, now) ==
    BuildDashboardData(FromChart(Some(d.historicalData.treasuryYield)),
                       FromChart(d.historicalData.actualMortgage),
                       FromChart(d.historicalData.actual15YearMortgage),
                       FromChart(d.historicalData.cpiData),
                       FromChart(d.historicalData.corePceData),
                       v, now)

EstimatesAgree(a, b) ==
    /\ a.mortgageRates.estimated = b.mortgageRates.estimated
    /\ a.mortgageRates.estimated15Year = b.mortgageRates.estimated15Year
    /\ Values(a.historicalData.estimatedMortgage) =
          Values(b.historicalData.estimatedMortgage)
    /\ Values(a.historicalData.estimated15YearMortgage) =
          Values(b.historicalData.estimated15YearMortgage)

\* C1: a spread change on an existing snapshot leaves the current estimated
\* 30-year and 15-year rates and both historical estimated series equal to
\* those a fresh load of the same series under the new spread would produce.
C1_RecomputeEqualsFreshLoad ==
    [][ (IsSome(dashboardData) /\ IsSome(dashboardData') /\ spread' # spread)
        => \A now \in ClockReadings :
              EstimatesAgree(Get(dashboardData'),
                             FreshLoad(Get(dashboardData), spread', now)) ]_vars

\* C2: in every stored snapshot, point i of the estimated 30-year series is
\* estimateMortgageRate of point i of the 10-year series under the spread the
\* snapshot records, and point i of the estimated 15-year series is
\* estimate15YearMortgageRate of it under that spread.
C2_EstimatedSeriesUseRecordedSpread ==
    IsSome(dashboardData) =>
        LET d == Get(dashboardData)
            h == d.historicalData
        IN  \A i \in 1..Len(h.treasuryYield) :
               /\ h.estimatedMortgage[i].value =
                     estimateMortgageRate(h.treasuryYield[i].value, d.mortgageRates.spread)
               /\ h.estimated15YearMortgage[i].value =
                     estimate15YearMortgageRate(h.treasuryYield[i].value,
                                                d.mortgageRates.spread)

C4_PrimaryFailureKeepsSnapshot ==
    [][ (Len(loads') < Len(loads) /\ lastPrimary' \in {"rejected", "empty"})
        => (IsSome(error') /\ dashboardData' = dashboardData /\ ~isLoading') ]_vars

\* C4 happens: a load failed on its 10-year series while a snapshot was stored
C4_Witness ==
    /\ lastPrimary \in {"rejected", "empty"}
    /\ IsSome(error)
    /\ IsSome(dashboardData)

\* C5: an error is only ever surfaced by a load whose 10-year fetch was
\* rejected or empty; a load whose 10-year series is non-empty stores a
\* snapshot with the 10-year block and both estimated rates and surfaces no
\* error, whichever secondary fetches failed, and every failed secondary fetch
\* shows as an empty series (its part of the snapshot is absent).
C5_SecondaryFailuresAbsorbed ==
    /\ IsSome(error) => lastPrimary \in {"rejected", "empty"}
    /\ lastPrimary = "data" =>
          /\ IsSome(dashboardData)
          /\ error = None
          /\ LET d == Get(dashboardData)
             IN  /\ d.tenYearYield.current =
                       d.historicalData.treasuryYield[Len(d.historicalData.treasuryYield)].value
                 /\ d.mortgageRates.estimated =
                       estimateMortgageRate(d.tenYearYield.current, d.mortgageRates.spread)
                 /\ d.mortgageRates.estimated15Year =
                       estimate15YearMortgageRate(d.tenYearYield.current,
                                                  d.mortgageRates.spread)
                 /\ "MORTGAGE30US" \in lastFailed =>
                       d.mortgageRates.actual = None /\ d.historicalData.actualMortgage = None
                 /\ "MORTGAGE15US" \in lastFailed =>
                       /\ d.mortgageRates.actual15Year = None
                       /\ d.historicalData.actual15YearMortgage = None
                 /\ "CPIAUCSL" \in lastFailed =>
                       d.historicalData.cpiData = None /\ d.inflationData = None
                 /\ "PCEPILFE" \in lastFailed =>
                       d.historicalData.corePceData = None /\ d.inflationData = None

\* C5 happens: all four secondary fetches failed and a snapshot was stored
C5_Witness ==
    /\ lastPrimary = "data"
    /\ lastFailed = Secondaries
    /\ IsSome(dashboardData)
    /\ error = None

\* C6: the inflation block is present exactly when the CPI series and the
\* Core PCE series are both non-empty; with an empty CPI series it is absent
\* while the 10-year block, the mortgage rates and the other series are those
\* of a normal assembly.
C6_InflationIffBothSeries ==
    IsSome(dashboardData) =>
        LET d == Get(dashboardData)
            h == d.historicalData
        IN  /\ IsSome(d.inflationData) <=> (IsSome(h.cpiData) /\ IsSome(h.corePceData))
            /\ ~IsSome(h.cpiData) =>
                  /\ d.inflationData = None
                  /\ d.tenYearYield = TenYearYield(FromChart(Some(h.treasuryYield)))
                  /\ d.mortgageRates.actual = LastValueOrUndefined(FromChart(h.actualMortgage))
                  /\ d.mortgageRates.actual15Year =
                        LastValueOrUndefined(FromChart(h.actual15YearMortgage))
                  /\ Len(h.estimatedMortgage) = Len(h.treasuryYield)
                  /\ Len(h.estimated15YearMortgage) = Len(h.treasuryYield)

\* C6 happens: CPI came back empty, Core PCE and the 10-year series did not
C6_Witness ==
    /\ IsSome(dashboardData)
    /\ Get(dashboardData).historicalData.cpiData = None
    /\ IsSome(Get(dashboardData).historicalData.corePceData)
    /\ Get(dashboardData).inflationData = None

\* C6 happens, the other way: both series non-empty, one of them with a single
\* observation, and the block is there
C6_WitnessPresent ==
    /\ IsSome(dashboardData)
    /\ IsSome(Get(dashboardData).inflationData)
    /\ Len(FromChart(Get(dashboardData).historicalData.corePceData)) = 1

\* the inflation series of the snapshot that are shorter than MinAnnualObs,
\* each with its block
ShortInflationBlocks(d) ==
    IF IsSome(d.inflationData)
    THEN { b \in { <<FromChart(d.historicalData.cpiData), Get(d.inflationData).cpi>>,
                   <<FromChart(d.historicalData.corePceData), Get(d.inflationData).corePce>> } :
           Len(b[1]) < MinAnnualObs }
    ELSE {}

IntendedYearAgo(obs) ==
    LET target == TwelveMonthsBefore(obs[Len(obs)].date)
        hits   == {i \in 1..Len(obs) : obs[i].date <= target}
    IN  IF hits # {}
        THEN Some(obs[CHOOSE i \in hits : \A j \in hits : i >= j])
        ELSE None

AnnualRateIsIntended(obs, block) ==
    (Len(obs) >= MinAnnualObs /\ IsSome(IntendedYearAgo(obs))) =>
        block.annualRate =
            calculateInflationRate(obs[Len(obs)].value, Get(IntendedYearAgo(obs)).value)

\* C8: for a CPI or Core PCE series of at least 10 observations the annual
\* rate is computed against the latest observation dated not later than 12
\* months before the latest observation of the series.
C8_YearAgoIsTwelveMonthsBeforeLatest ==
    (IsSome(dashboardData) /\ IsSome(Get(dashboardData).inflationData)) =>
        LET d == Get(dashboardData)
        IN  /\ AnnualRateIsIntended(FromChart(d.historicalData.cpiData),
                                    Get(d.inflationData).cpi)
            /\ AnnualRateIsIntended(FromChart(d.historicalData.corePceData),
                                    Get(d.inflationData).corePce)

\* the snapshot with its four spread-dependent estimates blanked (the fields a
\* spread change rewrites or leaves behind)
WithoutEstimates(d) ==
    [d EXCEPT !.mortgageRates.estimated = 0,
              !.mortgageRates.estimated15Year = 0,
              !.historicalData.estimatedMortgage = <<>>,
              !.historicalData.estimated15YearMortgage = <<>>]

CurrentPreviousDelta(obs, block) ==
    LET current  == obs[Len(obs)].value
        previous == IF Len(obs) >= 2 THEN obs[Len(obs) - 1].value ELSE current
    IN  /\ block.current = current
        /\ block.previous = previous
        /\ block.delta = ToFixed2(current - previous)

\* C10: for the 10-year yield, CPI and Core PCE, current is the last
\* observation of the series, previous the second-to-last whatever its value,
\* delta is their difference rounded to 2 decimals, and previous falls back to
\* current only when the series has a single observation.
C10_CurrentPreviousDelta ==
    IsSome(dashboardData) =>
        LET d == Get(dashboardData)
            h == d.historicalData
        IN  /\ CurrentPreviousDelta(FromChart(Some(h.treasuryYield)), d.tenYearYield)
            /\ IsSome(d.inflationData) =>
                  /\ CurrentPreviousDelta(FromChart(h.cpiData), Get(d.inflationData).cpi)
                  /\ CurrentPreviousDelta(FromChart(h.corePceData),
                                          Get(d.inflationData).corePce)

\* the result holds, at every label, the value of some point of that date, and
\* null only where the series has no point of that date
ExactMatch(data, labels, aligned) ==
    /\ Len(aligned) = Len(labels)
    /\ \A i \in 1..Len(labels) :
          IF Positions(data, labels[i]) = {}
          THEN aligned[i] = None
          ELSE \E k \in Positions(data, labels[i]) : aligned[i] = Some(data[k].value)

\* C11: alignment returns one entry per label; the entry is the value of the
\* series' observation of exactly that date whenever there is one, whatever
\* the value, and null only when there is none.
C11_ExactMatchAlignment ==
    /\ call.fn = "TrendChart" =>
          ExactMatch(call.args[1], call.args[2], call.result)
    /\ call.fn = "InflationChart" =>
          /\ ExactMatch(call.args[1], call.result.uniqueDates, call.result.cpiAligned)
          /\ ExactMatch(call.args[2], call.result.uniqueDates, call.result.corePceAligned)

\* every point of the series has a non-zero value
NonZero(data) == \A i \in 1..Len(data) : data[i].value # 0

\* at every label that several points share, the result is the value of the
\* last of them
LastWriteWins(data, labels, aligned) ==
    \A i \in 1..Len(labels) :
        LET hits == Positions(data, labels[i])
        IN  hits # {} =>
               aligned[i] = Some(data[CHOOSE k \in hits : \A j \in hits : k >= j].value)

\* C12: when several observations of a series carry the same date, alignment
\* emits the value of the last of them, in the alignment on the treasury
\* labels and in the alignment on the union of two series' dates alike
\* (stated for series of non-zero values).
C12_LastWriteWinsInBothModes ==
    /\ (call.fn = "TrendChart" /\ NonZero(call.args[1])) =>
          LastWriteWins(call.args[1], call.args[2], call.result)
    /\ (call.fn = "InflationChart" /\ NonZero(call.args[1]) /\ NonZero(call.args[2])) =>
          /\ LastWriteWins(call.args[1], call.result.uniqueDates, call.result.cpiAligned)
          /\ LastWriteWins(call.args[2], call.result.uniqueDates,
                           call.result.corePceAligned)

\* C13: the labels of the two-series alignment are the dates of both inputs,
\* each once, in ascending order, and nothing else.
C13_LabelsAreSortedUnion ==
    call.fn = "InflationChart" =>
        LET uniqueDates == call.result.uniqueDates
        IN  /\ { uniqueDates[i] : i \in 1..Len(uniqueDates) } =
                  { call.args[1][i].date : i \in 1..Len(call.args[1]) }
                     \cup { call.args[2][i].date : i \in 1..Len(call.args[2]) }
            /\ \A i \in 1..(Len(uniqueDates) - 1) : uniqueDates[i] < uniqueDates[i + 1]

\* C13 happens: two series given out of order that share a date and each have
\* a date of their own
C13_Witness ==
    /\ call.fn = "InflationChart"
    /\ Len(call.args[1]) = 2
    /\ call.args[1][1].date > call.args[1][2].date
    /\ Len(call.args[2]) = 1
    /\ call.args[2][1].date = call.args[1][1].date
    /\ Len(call.result.uniqueDates) = 2

\* C14: the export has one row per 10-year observation, and the actual
\* mortgage cell of a row is the actual 30-year observation of the row's date,
\* or the not-available marker when there is none of that date.
C14_ExportRowsAligned ==
    IsSome(dashboardData) =>
        LET d      == Get(dashboardData)
            rows   == CsvRows(d)
            actual == FromChart(d.historicalData.actualMortgage)
        IN  /\ Len(rows) = Len(d.historicalData.treasuryYield)
            /\ \A i \in 1..Len(rows) :
                  /\ rows[i].date = d.historicalData.treasuryYield[i].date
                  /\ IF Positions(actual, rows[i].date) = {}
                     THEN rows[i].actual = None
                     ELSE \E k \in Positions(actual, rows[i].date) :
                             rows[i].actual = Some(ToFixed2(actual[k].value))

\* the fetches of one invocation that were given the same range as the
\* 10-year fetch, and those given the same range as the CPI fetch
SameRangeAs(load, ind) == {other \in Indicators : load.request[other] = load.request[ind]}

\* every estimated value of the snapshot is computed under spread v
OneSpread(d, v) ==
    /\ d.mortgageRates.spread = v
    /\ d.mortgageRates.estimated = estimateMortgageRate(d.tenYearYield.current, v)
    /\ d.mortgageRates.estimated15Year =
          estimate15YearMortgageRate(d.tenYearYield.current, v)
    /\ \A i \in 1..Len(d.historicalData.treasuryYield) :
          /\ d.historicalData.estimatedMortgage[i].value =
                estimateMortgageRate(d.historicalData.treasuryYield[i].value, v)
          /\ d.historicalData.estimated15YearMortgage[i].value =
                estimate15YearMortgageRate(d.historicalData.treasuryYield[i].value, v)

\* C15 as stated: within one load all five series are fetched for one and the
\* same requested date range.
C15_OneRangePerLoad ==
    \A i \in 1..Len(loads) : SameRangeAs(loads[i], Primary) = Indicators

\* C15 amended: within one load the 10-year series and the two actual mortgage
\* series are fetched for the range of the selected time range, CPI and Core
\* PCE for the range that starts 15 months before today; all five ranges end
\* today; and every estimated value the load stores uses the one spread the
\* load was started with.
C15_TwoRangesOneSpread ==
    [][ /\ \A i \in 1..Len(loads') :
              LET load == loads'[i]
                  today == load.request[Primary].end
              IN  /\ SameRangeAs(load, Primary) = {"DGS10", "MORTGAGE30US", "MORTGAGE15US"}
                  /\ SameRangeAs(load, "CPIAUCSL") = {"CPIAUCSL", "PCEPILFE"}
                  /\ \A ind \in Indicators : load.request[ind].end = today
                  /\ load.request[Primary].start =
                        DaysBefore(today, timeRangeToDays(load.timeRange))
                  /\ load.request["CPIAUCSL"].start = MonthsBefore(today, InflationMonths)
        /\ (Len(loads') < Len(loads) /\ lastPrimary' = "data") =>
              \E i \in 1..Len(loads) : OneSpread(Get(dashboardData'), loads[i].spread)
      ]_vars

\* C15 happens: with a snapshot stored, a load of the 30d view has all its
\* five fetches settled
C15_Witness ==
    /\ IsSome(dashboardData)
    /\ Len(loads) = 1
    /\ loads[1].timeRange = "30d"
    /\ loads[1].pending = {}

\* the actual rate and its historical series are both present when the
\* provider's series is non-empty and both absent when it is empty; the rate
\* is the value of the last observation
ActualFollowsSeries(rate, chart, answers) ==
    LET series == FromChart(chart)
    IN  /\ series \in answers \cup {<<>>}
        /\ IsSome(rate) <=> series # <<>>
        /\ IsSome(chart) <=> series # <<>>
        /\ IsSome(rate) => Get(rate) = series[Len(series)].value

\* C16: the actual 30-year rate and its historical series, and likewise the
\* 15-year ones, are in the snapshot exactly when the provider returned a
\* non-empty series for the indicator (a failed fetch counts as empty); the
\* current actual rate is the value of the last observation of the series.
C16_ActualRatesFollowProvider ==
    IsSome(dashboardData) =>
        LET d == Get(dashboardData)
        IN  /\ ActualFollowsSeries(d.mortgageRates.actual,
                                   d.historicalData.actualMortgage, provider.mortgage30)
            /\ ActualFollowsSeries(d.mortgageRates.actual15Year,
                                   d.historicalData.actual15YearMortgage,
                                   provider.mortgage15)
            /\ (lastPrimary = "data" /\ "MORTGAGE30US" \in lastFailed) =>
                  d.mortgageRates.actual = None
            /\ (lastPrimary = "data" /\ "MORTGAGE15US" \in lastFailed) =>
                  d.mortgageRates.actual15Year = None

\* C16 happens: a snapshot with the actual 30-year rate of a series of two
\* observations and without actual 15-year rate
C16_Witness ==
    /\ IsSome(dashboardData)
    /\ Len(FromChart(Get(dashboardData).historicalData.actualMortgage)) = 2
    /\ IsSome(Get(dashboardData).mortgageRates.actual)
    /\ Get(dashboardData).mortgageRates.actual15Year = None
    /\ Get(dashboardData).historicalData.actual15YearMortgage = None

\* yield + spread lies exactly halfway between two hundredths
AtRoundingTie(treasuryYield, spreadArg) == (treasuryYield + spreadArg) % 10 = 5

\* C17 as stated: the 30-year estimate is yield + spread rounded to 2
\* decimals, the 15-year estimate yield + spread - 0.4 rounded to 2 decimals,
\* and the 15-year estimate is always the 30-year estimate minus 0.40.
C17_FifteenYearAlwaysFortyBelow ==
    call.fn = "estimate" =>
        /\ call.result.estimated = ToFixed2(call.args[1] + call.args[2])
        /\ call.result.estimated15Year = ToFixed2(call.args[1] + call.args[2] - 400)
        /\ call.result.estimated15Year = call.result.estimated - 400

\* C17 amended: the 30-year estimate is yield + spread rounded to 2 decimals
\* and the 15-year estimate yield + spread - 0.4 rounded to 2 decimals; the
\* 15-year estimate is the 30-year estimate minus 0.40 whenever yield + spread
\* is not halfway between two hundredths.
C17_FortyBelowOffTies ==
    call.fn = "estimate" =>
        /\ call.result.estimated = ToFixed2(call.args[1] + call.args[2])
        /\ call.result.estimated15Year = ToFixed2(call.args[1] + call.args[2] - 400)
        /\ ~AtRoundingTie(call.args[1], call.args[2]) =>
              call.result.estimated15Year = call.result.estimated - 400

\* C17 happens: both estimates of a sum that rounding changes
C17_Witness ==
    /\ call.fn = "estimate"
    /\ ~AtRoundingTie(call.args[1], call.args[2])
    /\ call.result.estimated # call.args[1] + call.args[2]
    /\ call.result.estimated15Year = call.result.estimated - 400

\* C18: movingAverage returns the empty sequence for periods <= 0 and for
\* periods beyond the length; otherwise length - periods + 1 values, the j-th
\* being the mean of values[j .. j + periods - 1] rounded to 2 decimals.
C18_MovingAverage ==
    call.fn = "movingAverage" =>
        LET values  == call.args[1]
            periods == call.args[2]
        IN  IF periods <= 0 \/ periods > Len(values)
            THEN call.result = <<>>
            ELSE /\ Len(call.result) = Len(values) - periods + 1
                 /\ \A j \in 1..Len(call.result) :
                       call.result[j] =
                          10 * RoundDiv(Sum(SubSeq(values, j, j + periods - 1)),
                                        10 * periods)

\* C18 happens: two different averages of windows of 2 over 3 values
C18_Witness ==
    /\ call.fn = "movingAverage"
    /\ Len(call.args[1]) = 3
    /\ call.args[2] = 2
    /\ Len(call.result) = 2
    /\ call.result[1] # call.result[2]

\* C19: on degenerate input every function of the library returns its
\* fallback: 0 for a percentage change, an annual or a monthly inflation rate
\* on a zero base, 0 for the volatility of fewer than 2 values, {0, 0} for
\* the range of no values, and zeros of the same length for the
\* normalization of values of zero range.
C19_DegenerateInputFallbacks ==
    /\ (call.fn \in {"calculatePercentageChange", "calculateInflationRate",
                     "calculateMonthlyInflationRate"} /\ call.args[2] = 0) =>
          call.result = 0
    /\ (call.fn = "calculateVolatility" /\ Len(call.args[1]) < 2) => call.result = 0
    /\ (call.fn = "findRange" /\ call.args[1] = <<>>) =>
          call.result = [min |-> 0, max |-> 0]
    /\ (call.fn = "normalizeValues"
          /\ \A i, j \in 1..Len(call.args[1]) : call.args[1][i] = call.args[1][j]) =>
          call.result = [i \in 1..Len(call.args[1]) |-> 0]

\* C19 happens: a percentage change on a zero base
C19_Witness ==
    /\ call.fn = "calculatePercentageChange"
    /\ call.args[1] # 0
    /\ call.args[2] = 0
    /\ call.result = 0

\* C20: normalizeValues returns as many elements as it is given, each in
\* [0, 1]; with max > min the minimum maps to 0 and the maximum to 1; with
\* max = min every element is 0.
C20_NormalizedRange ==
    call.fn = "normalizeValues" =>
        LET values == call.args[1]
            IsMin(i) == \A j \in 1..Len(values) : values[i] <= values[j]
            IsMax(i) == \A j \in 1..Len(values) : values[i] >= values[j]
        IN  /\ Len(call.result) = Len(values)
            /\ \A i \in 1..Len(values) :
                  /\ call.result[i] >= 0 /\ call.result[i] <= 1000
                  /\ (IsMin(i) /\ ~IsMax(i)) => call.result[i] = 0
                  /\ (IsMax(i) /\ ~IsMin(i)) => call.result[i] = 1000
                  /\ (IsMax(i) /\ IsMin(i)) => call.result[i] = 0

\* C20 happens: three different values, the middle one mapped strictly inside
C20_Witness ==
    /\ call.fn = "normalizeValues"
    /\ Len(call.args[1]) = 3
    /\ 0 \in {call.result[i] : i \in 1..3}
    /\ 1000 \in {call.result[i] : i \in 1..3}
    /\ \E i \in 1..3 : call.result[i] > 0 /\ call.result[i] < 1000
    /\ \A i \in 1..3 : call.args[1][i] # 0

\* the positions of a response's observations whose value is not the
\* missing marker and reads as a number
NumericPositions(observations) ==
    {i \in 1..Len(observations) :
        observations[i].value # <<".">> /\ parseFloat(observations[i].value) # None}

\* the k-th smallest member of a set of positions
KthOf(positions, k) ==
    CHOOSE i \in positions : Cardinality({j \in positions : j <= i}) = k

\* C21: fetchFredSeries returns the response's observations in their
\* original order, keeping exactly those whose value is not '.' and parses
\* as a number; no returned observation carries a missing or non-numeric
\* value.
C21_OnlyNumericObservationsInOrder ==
    (call.fn = "fetchFredSeries" /\ call.args[1].ok /\ call.args[1].observations # None) =>
        LET given == Get(call.args[1].observations)
            kept  == NumericPositions(given)
            out   == call.result.observations
        IN  /\ ~call.result.thrown
            /\ Len(out) = Cardinality(kept)
            /\ \A k \in 1..Len(out) :
                  /\ out[k].date = given[KthOf(kept, k)].date
                  /\ out[k].value = parseFloat(given[KthOf(kept, k)].value)
                  /\ out[k].value # None

\* a response mixing a missing marker, a non-numeric value and a number
C21_Witness ==
    /\ call.fn = "fetchFredSeries"
    /\ call.args[1].observations # None
    /\ Len(Get(call.args[1].observations)) = 2
    /\ Get(call.args[1].observations)[1].value = <<"a">>
    /\ Len(call.result.observations) = 1
    /\ call.result.observations[1].value = Some(4250)

\* C22: the annual CPI and Core PCE inflation rates shown by
\* InflationInsights are the annualRate values of the snapshot's
\* inflationData (printed to one decimal), for every pair of series.
C22_InsightsShowSnapshotRates ==
    InflationInsights(dashboardData, isLoading) # None =>
        LET shown == Get(InflationInsights(dashboardData, isLoading))
            block == Get(Get(dashboardData).inflationData)
        IN  /\ shown.cpiAnnualRate = Some(FormatPercent1(block.cpi.annualRate))
            /\ shown.corePceAnnualRate = Some(FormatPercent1(block.corePce.annualRate))

\* C23: within one load no snapshot is stored until all five fetches have
\* resolved or, for the secondary ones, been replaced by an empty series:
\* a step that changes the snapshot while a load is in flight completes a
\* load none of whose fetches is pending.
C23_NoSnapshotBeforeAllSettled ==
    [][(loads # <<>> /\ dashboardData' # dashboardData) =>
          \E i \in 1..Len(loads) :
             /\ loads[i].pending = {}
             /\ loads' = WithoutOvertaking(i)]_vars

\* a load has stored its snapshot after its CPI fetch failed into []
C23_Witness ==
    /\ IsSome(dashboardData)
    /\ loads = <<>>
    /\ ~isLoading
    /\ lastPrimary = "data"
    /\ lastFailed = {"CPIAUCSL"}
    /\ Get(dashboardData).historicalData.cpiData = None

\* the parts of a snapshot that a spread change must leave alone
SpreadIndependent(d) ==
    [tenYearYield  |-> d.tenYearYield,
     actual        |-> d.mortgageRates.actual,
     actual15Year  |-> d.mortgageRates.actual15Year,
     inflationData |-> d.inflationData,
     treasuryYield |-> d.historicalData.treasuryYield,
     actualMortgage |-> d.historicalData.actualMortgage,
     cpiData       |-> d.historicalData.cpiData,
     corePceData   |-> d.historicalData.corePceData]

\* C24: a spread change on an existing snapshot starts no fetch and leaves
\* the 10-year block, the actual mortgage rates, the inflation block and the
\* treasury, actual-mortgage, CPI and Core PCE series unchanged; without a
\* snapshot the spread effect produces none.
C24_SpreadChangeFrame ==
    [][spread' # spread =>
          /\ loads' = loads
          /\ isLoading' = isLoading
          /\ IsSome(dashboardData) =>
                /\ IsSome(dashboardData')
                /\ SpreadIndependent(Get(dashboardData')) = SpreadIndependent(Get(dashboardData))
          /\ SpreadEffect(None, spread') = None]_vars

\* a spread change has recomputed a snapshot that carries an inflation block
C24_Witness ==
    /\ IsSome(dashboardData)
    /\ spread # DefaultSpread
    /\ Get(dashboardData).mortgageRates.spread = spread
    /\ IsSome(Get(dashboardData).inflationData)
    /\ Get(dashboardData).historicalData.estimatedMortgage[1].label = "Estimated Mortgage"

\* C25: the spread is always within [1.2, 3.0]: it starts at 1.9 and every
\* change the SpreadControl delivers (slider or preset) is in that range;
\* while the control is disabled a preset click delivers no change.
C25_SpreadWithinRange ==
    /\ spread \in SliderMin..SliderMax
    /\ (call = NoCall /\ dashboardData = None) => spread = DefaultSpread
    /\ SpreadChoices \subseteq ({SliderValue(k) : k \in SliderPositions} \cup Presets)
    /\ (call.fn = "handlePresetClick" /\ call.args[3]) => call.result = call.args[2]

\* the slider was taken to its last position and then, the control
\* disabled, another preset was clicked
C25_Witness ==
    /\ spread = SliderMax
    /\ isLoading
    /\ call.fn = "handlePresetClick"
    /\ call.args = <<1500, SliderMax, TRUE>>

C27_SnapshotSpreadIsSelectedSpread ==
    (IsSome(dashboardData) /\ ~isLoading /\ loads = <<>>) =>
        LET d == Get(dashboardData)
        IN  /\ d.mortgageRates.spread = spread
            /\ d.mortgageRates.estimated =
                  estimateMortgageRate(d.tenYearYield.current, spread)
            /\ d.mortgageRates.estimated15Year =
                  estimate15YearMortgageRate(d.tenYearYield.current, spread)

\* a load started after a spread change has stored its snapshot
C27_Witness ==
    /\ IsSome(dashboardData)
    /\ ~isLoading
    /\ loads = <<>>
    /\ spread # DefaultSpread
    /\ lastPrimary = "data"
    /\ Get(dashboardData).historicalData.estimatedMortgage[1].label =
          "Estimated 30-Year Mortgage"

\* C28: every loadData invocation whose fetches all settle eventually sets
\* isLoading back to false, on success and on failure alike; the error is
\* cleared when a load starts, is null after a successful load, and is set
\* after a failed one.
C28_LoadingEndsAndErrorFollowsOutcome ==
    /\ (loads # <<>> /\ AllSettled(loads[1])) ~> ~isLoading
    /\ [][Len(loads') > Len(loads) => (isLoading' /\ error' = None)]_vars
    /\ [][Len(loads') < Len(loads) =>
             /\ ~isLoading'
             /\ lastPrimary' = "data" => error' = None
             /\ lastPrimary' # "data" => IsSome(error')]_vars

\* a load all of whose fetches settled has failed on an empty 10-year series
C28_Witness ==
    /\ mounted
    /\ loads = <<>>
    /\ ~isLoading
    /\ lastPrimary = "empty"
    /\ error = Some(NoTreasuryMessage)

\* the dates of a chart series, in order
Dates(chart) == [i \in 1..Len(chart) |-> chart[i].date]

\* C29: in every snapshot reachable by loads and spread changes, the
\* estimatedMortgage and estimated15YearMortgage series have the length of
\* the treasuryYield series and carry its date at every position.
C29_EstimateSeriesAlignedWithTreasury ==
    IsSome(dashboardData) =>
        LET h == Get(dashboardData).historicalData
        IN  /\ Dates(h.estimatedMortgage) = Dates(h.treasuryYield)
            /\ Dates(h.estimated15YearMortgage) = Dates(h.treasuryYield)

\* a snapshot over a two-point 10-year series, recomputed by a spread change
C29_Witness ==
    /\ IsSome(dashboardData)
    /\ Len(Get(dashboardData).historicalData.treasuryYield) = 2
    /\ Get(dashboardData).historicalData.estimatedMortgage[2].label = "Estimated Mortgage"
    /\ Get(dashboardData).historicalData.estimated15YearMortgage[2].date = 20250612

\* C30: calculatePayment's simulation always terminates, after at most
\* loanTerm * 12 iterations; totalMonths never exceeds loanTerm * 12 and
\* equals it when the extra payment is 0; the remaining balance is never
\* negative after an iteration.
C30_PayoffSimulationTerminates ==
    /\ (call.fn = "calculatePayment") ~> (call.fn = "calculatePayment" /\ call.result.pc = "done")
    /\ [](call.fn = "calculatePayment" =>
            /\ call.result.monthsToPayoff <= call.args.loanTerm * 12
            /\ (call.result.pc = "done" /\ call.args.extraPrincipal = 0) =>
                  call.result.monthsToPayoff = call.args.loanTerm * 12)
    /\ [][(call.fn = "calculatePayment" /\ call'.result.monthsToPayoff > call.result.monthsToPayoff
             /\ call.result.pc = "loop" /\ call'.result.pc = "loop") =>
           (call'.result.balance = None \/ Get(call'.result.balance) >= 0)]_vars

\* a loan paid off early by extra payments: fewer months than the term,
\* the balance at zero
C30_Witness ==
    /\ call.fn = "calculatePayment"
    /\ call.result.pc = "done"
    /\ call.args.loanAmount = 100000
    /\ call.args.extraPrincipal = 5000
    /\ call.result.monthsToPayoff > 1
    /\ call.result.monthsToPayoff < call.args.loanTerm * 12
    /\ call.result.balance = Some(0)

====
